---------------------------- MODULE Spec2Model ----------------------------
(***************************************************************************)
(* Client-side payment orchestration of the TagadaPay examples.            *)
(*                                                                         *)
(*   PollSpec  pollPaymentStatus of api/paymentBackend.ts, called alone    *)
(*             with any maxAttempts.                                       *)
(*   Spec      the hook-based core-js App: App.tsx driving usePaymentFlow  *)
(*             and the DemoBackendClient, under any sequence of user       *)
(*             actions and any answers of the network and the 3DS SDK.     *)
(*   StoreHistorySpec, TokenHistorySpec                                    *)
(*             the localStorage histories of utils/localStorage.ts under   *)
(*             any sequence of save calls.                                 *)
(*                                                                         *)
(* A step of the model is one run of JavaScript between two awaits: a      *)
(* click handler up to its first await, or the continuation that runs when *)
(* a fetch, an SDK call or a timer settles.  React state written by such a *)
(* run is visible to the next event.                                       *)
(***************************************************************************)
EXTENDS Integers, FiniteSets, Sequences, TLC

VARIABLES
    poll,            \* PollSpec: the running pollPaymentStatus call
    firstTerminal,   \* PollSpec: the first response payment with a terminal status
    answered,        \* PollSpec: the payment of the response the latest step read
    tokenResult,               \* App: the token held, NoToken for null
    apiToken,                  \* App: the API token input
    storeId,                   \* App: the store id input
    paymentAmount,             \* App: the amount input
    paymentInstrumentResult,   \* App: the stored instrument, NoInstrument for null
    threedsSessionResult,      \* App: the stored 3DS session, NoSession for null
    paymentResult,             \* App: the stored payment result, NoResult for null
    isLoading,                 \* usePaymentFlow: its own loading flag
    error,                     \* usePaymentFlow: its own error, NoError for null
    threeDsStatus,             \* usePaymentFlow
    tasks,           \* the handler calls that have not settled yet
    nextOp,          \* number of the next handler call
    wire,            \* the request the latest step sent, NoReq if it sent none
    rx,              \* the answer the latest step consumed, NoRx if none
    done,            \* the hook call the latest step settled, NoDone if none
    paid,            \* ids of the instruments a process-payment request was sent for
    lastSession,     \* id of the 3DS session persisted last, 0 if none was
    threeDsTrail,    \* the values the latest step passed to setThreeDsStatus, in order
    tokenHistory,    \* localStorage: the list under tagadapay_token_history
    storeHistory,    \* localStorage: the list under tagadapay_store_history
    currentStore,    \* localStorage: tagadapay_current_store, 0 if absent
    clock,           \* localStorage: number of save calls so far, read as Date.now()
    lastSave,        \* localStorage: the latest save call and a summary of all so far
    manual,          \* ManualSpec: the React state of the App without the hook
    manualTasks,     \* ManualSpec: its handler calls that have not settled yet
    manualOps,       \* ManualSpec: number of handler calls started
    manualLog,       \* ManualSpec: what the latest step sent and which challenge it started
    checkout,        \* ManualSpec: number of the current checkout (Start Over begins the next)
    latestResponse,  \* ManualSpec: payment of the latest process-payment response of this checkout
    wallet,          \* WalletSpec: the React state of the Apple Pay / Google Pay App
    walletAttempts,  \* WalletSpec: wallet attempts and instrument calls that have not settled
    walletOps,       \* WalletSpec: number of clicks handled
    walletReported,  \* WalletSpec: the message the latest step passed to onError, "" if none
    express,         \* ExpressSpec: the React state of GooglePayExpressCheckout
    expressTasks,    \* ExpressSpec: its calculations that have not settled yet
    expressOps,      \* ExpressSpec: number of payment-data callbacks received
    sheet            \* ExpressSpec: the address and option chosen in the Google Pay sheet

pollVars == <<poll, firstTerminal, answered>>

\* Spec and PollSpec do not follow localStorage: the App writes the
\* histories and reads them back only to offer earlier tokens and store ids
storageVars == <<tokenHistory, storeHistory, currentStore, clock, lastSave>>

manualVars == <<manual, manualTasks, manualOps, manualLog, checkout, latestResponse>>

\* the state of the other Apps of the repository, which Spec, PollSpec and the
\* localStorage specifications leave alone
walletVars == <<wallet, walletAttempts, walletOps, walletReported>>

expressVars == <<express, expressTasks, expressOps, sheet>>

sideVars == <<manualVars, walletVars, expressVars>>

appVars == <<tokenResult, apiToken, storeId, paymentAmount, paymentInstrumentResult,
             threedsSessionResult, paymentResult, isLoading, error, threeDsStatus,
             tasks, nextOp, wire, rx, done, paid, lastSession, threeDsTrail>>

vars == <<poll, firstTerminal, answered, tokenResult, apiToken, storeId, paymentAmount,
          paymentInstrumentResult, threedsSessionResult, paymentResult, isLoading,
          error, threeDsStatus, tasks, nextOp, wire, rx, done, paid, lastSession,
          threeDsTrail, tokenHistory, storeHistory, currentStore, clock, lastSave, manual,
          manualTasks, manualOps, manualLog, checkout, latestResponse,
          wallet, walletAttempts, walletOps, walletReported,
          express, expressTasks, expressOps, sheet>>

-----------------------------------------------------------------------------
(* Bounds and program constants *)

\* largest explicit maxAttempts argument tried in PollSpec
PollMaxAttempts == 3

\* maxAttempts = 20, the default of pollPaymentStatus
DefaultMaxAttempts == 20

-----------------------------------------------------------------------------
(* Payment API payloads *)

\* status values the payment API can answer with
Statuses == {"succeeded", "failed", "declined", "rejected", "pending"}

\* Payment.status of the data model: terminal once it leaves pending
TerminalStatuses == {"succeeded", "failed", "declined"}

NoPayment == [status |-> "", ver |-> 0, requireAction |-> "none", actionType |-> "",
              threedsSession |-> FALSE]

\* a payment object as the n-th status response carries it; status "" stands
\* for a payment without a status field
PaymentOf(s, n) == [NoPayment EXCEPT !.status = s, !.ver = n]

\* JSON bodies of the n-th status response: the payment wrapped as
\* {payment: ...} or bare, or an object without payment and status
StatusBodies(n) ==
    {[payment |-> PaymentOf(s, n)] : s \in Statuses \cup {""}}
        \cup {PaymentOf(s, n) : s \in Statuses \cup {""}}

StatusResponses(n) ==
    {[ok |-> FALSE, data |-> NoPayment]}
        \cup {[ok |-> TRUE, data |-> d] : d \in StatusBodies(n)}

\* localStorage with none of the three keys set
NoSave == [fn |-> "none", arg |-> 0, ids |-> 0, again |-> 0, log |-> <<>>]

StorageEmpty ==
    /\ tokenHistory = <<>>
    /\ storeHistory = <<>>
    /\ currentStore = 0
    /\ clock = 0
    /\ lastSave = NoSave

NoManualPayment == [id |-> 0, status |-> "", requireAction |-> "none", actionType |-> "",
                    threedsSession |-> FALSE]

\* the App without the hook, as mounted
ManualIdle ==
    [tokenResult |-> "null", apiToken |-> "", paymentInstrumentResult |-> 0,
     isCreatingPaymentInstrument |-> FALSE, paymentResult |-> NoManualPayment,
     isProcessingPayment |-> FALSE, apiError |-> "null", threedsSessionResult |-> 0,
     isCreatingThreedsSession |-> FALSE, threeDsStatus |-> "idle",
     lastChallengeData |-> NoManualPayment]

NoManualLog == [sent |-> "none", challenge |-> NoManualPayment, by |-> ""]

ManualInit ==
    /\ manual = ManualIdle
    /\ manualTasks = {}
    /\ manualOps = 0
    /\ manualLog = NoManualLog
    /\ checkout = 1
    /\ latestResponse = NoManualPayment

\* the Apple Pay / Google Pay App as mounted
WalletIdle ==
    [tokenResult |-> "null", error |-> "", isProcessing |-> FALSE,
     paymentInstrumentResult |-> "null", isCreatingInstrument |-> FALSE, apiToken |-> ""]

WalletInit ==
    /\ wallet = WalletIdle
    /\ walletAttempts = {}
    /\ walletOps = 0
    /\ walletReported = ""

\* the amount GooglePayExpressCheckout is mounted with, in cents
initialAmount == 2999

\* amounts of the order summary are counted in 1/Unit of a cent, which
\* holds every tax amount exactly
Unit == 10000

NoAddress == [countryCode |-> "", administrativeArea |-> ""]

\* the address initializeShipping calculates for
defaultAddress == [countryCode |-> "US", administrativeArea |-> "CA"]

NoSheet == [trigger |-> "none", shippingAddress |-> NoAddress, shippingOptionId |-> ""]

\* GooglePayExpressCheckout as mounted: the effect has started its first
\* calculation
ExpressInit ==
    /\ express = [orderSummary |-> [subtotal |-> initialAmount * Unit, shipping |-> 0,
                                    tax |-> 0, total |-> initialAmount * Unit],
                  shippingOptions |-> <<>>,
                  selectedShippingId |-> "standard",
                  isCalculating |-> FALSE]
    /\ expressTasks = {[id |-> 0, kind |-> "effect", pc |-> "options",
                        shippingAddress |-> defaultAddress, shippingOptionId |-> "standard"]}
    /\ expressOps = 0
    /\ sheet = NoSheet

SideIdle == ManualInit /\ WalletInit /\ ExpressInit

-----------------------------------------------------------------------------
(* pollPaymentStatus *)

\* const payment = data.payment || data
Unwrap(data) == IF "payment" \in DOMAIN data THEN data.payment ELSE data

\* !payment || !payment.status
InvalidPayment(payment) == payment.status = ""

IsCompleteNoDeclined(status) == status \in {"succeeded", "failed"}

IsCompleteNotPending(status) == status # "pending"

\* payment.status === 'succeeded' || 'failed' || 'declined'
IsComplete(status) == status \in {"succeeded", "failed", "declined"}

LoopTestInclusive(i, maxAttempts) == i <= maxAttempts

\* the loop test i < maxAttempts
LoopTest(i, maxAttempts) == i < maxAttempts

PollThrown(p, msg) == [p EXCEPT !.pc = "thrown", !.err = msg]

\* one evaluation of the loop head with counter i: the next fetch, or the
\* throw after the loop
PollLoopHead(p, i) ==
    IF LoopTest(i, p.max)
    THEN [p EXCEPT !.pc = "fetch", !.i = i, !.queries = @ + 1]
    ELSE PollThrown([p EXCEPT !.i = i], "Payment verification timeout")

\* a poll that was not started
PollIdle == [pc |-> "idle", i |-> 0, max |-> 0, queries |-> 0,
             result |-> NoPayment, err |-> ""]

\* the call, up to its first await
PollBegin(maxAttempts) == PollLoopHead([PollIdle EXCEPT !.max = maxAttempts], 0)

\* the continuation after fetch and response.json() settled
PollOnResponse(p, resp) ==
    IF ~resp.ok THEN PollThrown(p, "Failed to fetch payment status")
    ELSE LET payment == Unwrap(resp.data) IN
         IF InvalidPayment(payment) THEN PollThrown(p, "Invalid payment response")
         ELSE IF IsComplete(payment.status)
              THEN [p EXCEPT !.pc = "returned", !.result = payment]
              ELSE [p EXCEPT !.pc = "sleep"]

\* the continuation after the 1500 ms timer: i++ and the loop head
PollOnTimer(p) == PollLoopHead(p, p.i + 1)

PollSettled(p) == p.pc \in {"returned", "thrown"}

-----------------------------------------------------------------------------
(* The hook-based App: values *)

\* handler calls started in one run of the model
MaxOps == 4

\* null
NoToken == "null"

\* two TagadaTokens the card form and the token history can deliver
Tokens == {"tagadaToken_a", "tagadaToken_b"}

\* what is typed into the API token input, empty at first: blanks only, or
\* a usable key
ApiTokens == {" ", "key_1"}

\* '' and the default store id
StoreIds == {"", "store_eaa20d619f6b"}

\* the amount input, left at a positive amount (2999 is the default); an
\* emptied input (Number('') = 0) only disables the Process Payment button
Amounts == {2999}

\* String.prototype.trim on the values above
Trim(s) == IF s = " " THEN "" ELSE s

NoInstrument == [id |-> 0, token |-> NoToken]

NoSession == [id |-> 0, paymentInstrumentId |-> 0]

NoResult == NoPayment

NoError == "null"

NoReq == [kind |-> "none", op |-> 0, token |-> NoToken, pi |-> 0, sess |-> 0, bearer |-> ""]

\* POST payment-instruments/create-from-token
CreateInstrumentReq(op, token, bearer) ==
    [NoReq EXCEPT !.kind = "create-instrument", !.op = op, !.token = token,
                  !.bearer = bearer]

\* POST threeds/create-session
CreateSessionReq(op, pi, bearer) ==
    [NoReq EXCEPT !.kind = "create-session", !.op = op, !.pi = pi, !.bearer = bearer]

\* POST payments/process; sess = 0 is a body without threedsSessionId
ProcessPaymentReq(op, pi, sess, bearer) ==
    [NoReq EXCEPT !.kind = "process-payment", !.op = op, !.pi = pi, !.sess = sess,
                  !.bearer = bearer]

\* GET payments/:id, the id being that of the payment handler call op created
StatusReq(op, bearer) == [NoReq EXCEPT !.kind = "status", !.op = op, !.bearer = bearer]

\* a handler returned at its guard: nothing was sent
EarlyReturn == [NoReq EXCEPT !.kind = "returned"]

NoRx == [kind |-> "none", op |-> 0, ok |-> FALSE, body |-> "", payment |-> NoPayment]

\* the answer to a request of handler call op, or the outcome of an SDK call
Rx(kind, op, ok, body, payment) ==
    [kind |-> kind, op |-> op, ok |-> ok, body |-> body, payment |-> payment]

NoDone == [call |-> "none", op |-> 0, outcome |-> "", payment |-> NoPayment]

\* a call of a hook method settled
Done(call, op, outcome, payment) ==
    [call |-> call, op |-> op, outcome |-> outcome, payment |-> payment]

\* a fetch that did not deliver an OK response: the fetch rejected, or the
\* response is not OK and its body is unreadable, lacks an error string, or
\* names the error
HttpFailures ==
    {[ok |-> FALSE, body |-> b] :
        b \in {"rejected", "unreadable", "no-error", "Invalid API token"}}

HttpOk == [ok |-> TRUE, body |-> ""]

HttpErrorMessageFallbackOnly(resp, fallback) ==
    IF resp.body = "rejected" THEN "Failed to fetch" ELSE fallback \o ": Bad Request"

\* errorData.error || `${fallback}: ${response.statusText}`, with
\* response.json().catch(() => ({ error: 'Unknown error' }))
HttpErrorMessage(resp, fallback) ==
    CASE resp.body = "rejected" -> "Failed to fetch"
      [] resp.body = "unreadable" -> "Unknown error"
      [] resp.body = "no-error" -> fallback \o ": Bad Request"
      [] OTHER -> resp.body

\* requireActionData of a payment: absent, or its type and whether
\* metadata.threedsSession is present
ActionData == {<<"", FALSE>>} \cup ({"redirect", "threeds_auth"} \X BOOLEAN)

\* payments a process-payment response can carry
ProcessPayments ==
    {[status |-> s, ver |-> 0, requireAction |-> ra, actionType |-> ad[1],
      threedsSession |-> ad[2]] :
        s \in Statuses, ra \in {"none", "redirect", "threeds_auth"}, ad \in ActionData}

\* what the fetch of a process-payment request can deliver
ProcessResponses ==
    {[ok |-> FALSE, body |-> f.body, payment |-> NoPayment] : f \in HttpFailures}
        \cup {[ok |-> TRUE, body |-> "", payment |-> p] : p \in ProcessPayments}

\* outcomes of a call into the 3DS SDK: resolved, rejected with an Error, or
\* rejected with something that is no Error
SdkOutcomes == {"resolved", "error", "non-error"}

\* err instanceof Error ? err.message : fallback
SdkErrorMessage(outcome, fallback) ==
    IF outcome = "error" THEN "3DS SDK error" ELSE fallback

\* a handler call that was started and has not settled, with what its
\* closure holds: the instrument, the token, the stored session's id and the
\* API token of the render it was started from
Task(id, kind, pc, pi, tok, sess, bearer) ==
    [id |-> id, kind |-> kind, pc |-> pc, pi |-> pi, tok |-> tok, sess |-> sess,
     bearer |-> bearer, poll |-> PollIdle]

-----------------------------------------------------------------------------
(* The hook-based App: what is rendered *)

\* isLoading of useThreeds: set while a call into the SDK is pending
IsThreeDsLoading == \E t \in tasks : t.pc \in {"sdk_wait", "challenge_wait"}

\* isLoading: isLoading || isThreeDsLoading
IsLoadingShown == isLoading \/ IsThreeDsLoading

\* {!tokenResult ? <CardForm/> : ...}
CardFormShown == tokenResult = NoToken

\* Step 2 card and the disabled attribute of its button
CreatePaymentInstrumentShown ==
    tokenResult # NoToken /\ paymentInstrumentResult = NoInstrument /\ paymentResult = NoResult

CreatePaymentInstrumentDisabled ==
    IsLoadingShown \/ Trim(apiToken) = "" \/ Trim(storeId) = ""

\* the 3DS session button inside the instrument card
CreateThreedsSessionShown ==
    tokenResult # NoToken /\ paymentInstrumentResult # NoInstrument
        /\ threedsSessionResult = NoSession

CreateThreedsSessionDisabled == IsLoadingShown

\* Step 3 card and the disabled attribute of its button
ProcessPaymentShown ==
    tokenResult # NoToken /\ paymentInstrumentResult # NoInstrument /\ paymentResult = NoResult

ProcessPaymentEnabledWhileLoading == paymentAmount = 0 \/ Trim(storeId) = ""

ProcessPaymentDisabled == IsLoadingShown \/ paymentAmount = 0 \/ Trim(storeId) = ""

\* the result card of the hook-based App: green for 'succeeded', red for
\* 'declined' or 'rejected', yellow for every other status
ResultPresentation(status) ==
    IF status = "succeeded" THEN "success"
    ELSE IF status = "declined" \/ status = "rejected" THEN "declined"
    ELSE "processing"

\* the result card of the simple three-step App, which stores the result of
\* every OK process-payment response: green whatever the status
SimpleResultPresentation(status) == "success"

\* the retry buttons (in the result card and in the action bar)
RetryShown == tokenResult # NoToken /\ threeDsStatus = "failed"

RetryDisabled == IsLoadingShown

-----------------------------------------------------------------------------
(* The hook-based App: user actions *)

inputs == <<apiToken, storeId, paymentAmount>>

results == <<paymentInstrumentResult, threedsSessionResult, paymentResult>>

hook == <<isLoading, error, threeDsStatus>>

Init ==
    /\ poll = PollIdle
    /\ firstTerminal = NoPayment
    /\ answered = NoPayment
    /\ tokenResult = NoToken
    /\ apiToken = ""
    /\ storeId = "store_eaa20d619f6b"
    /\ paymentAmount = 2999
    /\ paymentInstrumentResult = NoInstrument
    /\ threedsSessionResult = NoSession
    /\ paymentResult = NoResult
    /\ isLoading = FALSE
    /\ error = NoError
    /\ threeDsStatus = "idle"
    /\ tasks = {}
    /\ nextOp = 1
    /\ wire = NoReq
    /\ rx = NoRx
    /\ done = NoDone
    /\ paid = {}
    /\ lastSession = 0
    /\ threeDsTrail = <<>>
    /\ StorageEmpty
    /\ SideIdle

\* the card form delivers a token
HandleTokenized(t) ==
    /\ UNCHANGED <<sideVars, pollVars, storageVars, paid, lastSession>>
    /\ rx' = NoRx /\ done' = NoDone /\ threeDsTrail' = <<>>
    /\ CardFormShown
    /\ tokenResult' = t
    /\ wire' = NoReq
    /\ UNCHANGED <<inputs, results, hook, tasks, nextOp>>

\* a token of the history sidebar is selected; the sidebar can be opened at
\* any time and the stored history can hold any earlier token
HandleSelectTokenFromHistory(t) ==
    /\ UNCHANGED <<sideVars, pollVars, storageVars, paid, lastSession>>
    /\ rx' = NoRx /\ done' = NoDone /\ threeDsTrail' = <<>>
    /\ tokenResult' = t
    /\ wire' = NoReq
    /\ UNCHANGED <<inputs, results, hook, tasks, nextOp>>

\* Start Over
ResetToken ==
    /\ UNCHANGED <<sideVars, pollVars, storageVars, paid, lastSession>>
    /\ rx' = NoRx /\ done' = NoDone /\ threeDsTrail' = <<>>
    /\ tokenResult # NoToken
    /\ tokenResult' = NoToken
    /\ paymentInstrumentResult' = NoInstrument
    /\ paymentResult' = NoResult
    /\ threedsSessionResult' = NoSession
    /\ error' = NoError
    /\ wire' = NoReq
    /\ UNCHANGED <<inputs, isLoading, threeDsStatus, tasks, nextOp>>

\* the API token input of the configuration card
SetApiToken(v) ==
    /\ UNCHANGED <<sideVars, pollVars, storageVars, paid, lastSession>>
    /\ rx' = NoRx /\ done' = NoDone /\ threeDsTrail' = <<>>
    /\ tokenResult # NoToken
    /\ apiToken' = v
    /\ wire' = NoReq
    /\ UNCHANGED <<tokenResult, storeId, paymentAmount, results, hook, tasks, nextOp>>

\* the store id input of the configuration card
SetStoreId(v) ==
    /\ UNCHANGED <<sideVars, pollVars, storageVars, paid, lastSession>>
    /\ rx' = NoRx /\ done' = NoDone /\ threeDsTrail' = <<>>
    /\ tokenResult # NoToken
    /\ storeId' = v
    /\ wire' = NoReq
    /\ UNCHANGED <<tokenResult, apiToken, paymentAmount, results, hook, tasks, nextOp>>

\* the amount input of the Step 3 card
SetPaymentAmount(v) ==
    /\ UNCHANGED <<sideVars, pollVars, storageVars, paid, lastSession>>
    /\ rx' = NoRx /\ done' = NoDone /\ threeDsTrail' = <<>>
    /\ ProcessPaymentShown
    /\ paymentAmount' = v
    /\ wire' = NoReq
    /\ UNCHANGED <<tokenResult, apiToken, storeId, results, hook, tasks, nextOp>>

\* a handler that returned at its guard
ReturnedEarly ==
    /\ wire' = EarlyReturn
    /\ threeDsTrail' = <<>>
    /\ UNCHANGED <<tokenResult, inputs, results, hook, tasks, nextOp>>

\* if (!tokenResult || !apiToken.trim() || !storeId.trim()) return
CreatePaymentInstrumentReturns ==
    tokenResult = NoToken \/ Trim(apiToken) = "" \/ Trim(storeId) = ""

\* createPaymentInstrument of App.tsx up to the await inside createPI
ClickCreatePaymentInstrument ==
    /\ UNCHANGED <<sideVars, pollVars, storageVars, paid, lastSession>>
    /\ rx' = NoRx /\ done' = NoDone
    /\ CreatePaymentInstrumentShown
    /\ ~CreatePaymentInstrumentDisabled
    /\ nextOp <= MaxOps
    /\ IF CreatePaymentInstrumentReturns THEN ReturnedEarly
       ELSE /\ error' = NoError
            /\ isLoading' = TRUE
            /\ tasks' = tasks \cup {Task(nextOp, "pi", "pi_wait", NoInstrument,
                                         tokenResult, 0, apiToken)}
            /\ wire' = CreateInstrumentReq(nextOp, tokenResult, apiToken)
            /\ threeDsTrail' = <<>>
            /\ nextOp' = nextOp + 1
            /\ UNCHANGED <<tokenResult, inputs, results, threeDsStatus>>

\* if (!paymentInstrumentResult || !tokenResult) return
CreateThreedsSessionReturns ==
    paymentInstrumentResult = NoInstrument \/ tokenResult = NoToken

\* createThreedsSession of App.tsx up to the await of createLocalSession
ClickCreateThreedsSession ==
    /\ UNCHANGED <<sideVars, pollVars, storageVars, paid, lastSession>>
    /\ rx' = NoRx /\ done' = NoDone
    /\ CreateThreedsSessionShown
    /\ ~CreateThreedsSessionDisabled
    /\ nextOp <= MaxOps
    /\ IF CreateThreedsSessionReturns THEN ReturnedEarly
       ELSE /\ error' = NoError
            /\ isLoading' = TRUE
            /\ tasks' = tasks \cup {Task(nextOp, "session", "sdk_wait",
                                         paymentInstrumentResult, tokenResult, 0,
                                         apiToken)}
            /\ wire' = NoReq
            /\ threeDsTrail' = <<>>
            /\ nextOp' = nextOp + 1
            /\ UNCHANGED <<tokenResult, inputs, results, threeDsStatus>>

\* if (!paymentInstrumentResult) return
ProcessPaymentReturns == paymentInstrumentResult = NoInstrument

SessionIdOmitted == NoSession.id

\* ...(threedsSessionResult && { threedsSessionId: threedsSessionResult.id })
SessionIdToSend == threedsSessionResult.id

\* processPayment of App.tsx up to the await inside processPaymentAPI
ClickProcessPayment ==
    /\ UNCHANGED <<sideVars, pollVars, storageVars, lastSession>>
    /\ rx' = NoRx /\ done' = NoDone
    /\ ProcessPaymentShown
    /\ ~ProcessPaymentDisabled
    /\ nextOp <= MaxOps
    /\ IF ProcessPaymentReturns THEN ReturnedEarly /\ UNCHANGED paid
       ELSE /\ error' = NoError
            /\ isLoading' = TRUE
            /\ threeDsStatus' = "idle"
            /\ threeDsTrail' = <<"idle">>
            /\ tasks' = tasks \cup {Task(nextOp, "pay", "pay_wait",
                                         paymentInstrumentResult, tokenResult,
                                         SessionIdToSend, apiToken)}
            /\ wire' = ProcessPaymentReq(nextOp, paymentInstrumentResult.id,
                                         SessionIdToSend, apiToken)
            /\ paid' = paid \cup {paymentInstrumentResult.id}
            /\ nextOp' = nextOp + 1
            /\ UNCHANGED <<tokenResult, inputs, results>>

RetryNeverReturns == FALSE

\* if (!paymentInstrumentResult || !tokenResult) return
RetryReturns == paymentInstrumentResult = NoInstrument \/ tokenResult = NoToken

\* retry3DSFromBeginning up to the await of createLocalSession
ClickRetry ==
    /\ UNCHANGED <<sideVars, pollVars, storageVars, paid, lastSession>>
    /\ rx' = NoRx /\ done' = NoDone
    /\ RetryShown
    /\ ~RetryDisabled
    /\ nextOp <= MaxOps
    /\ IF RetryReturns THEN ReturnedEarly
       ELSE /\ threeDsStatus' = "idle"
            /\ threeDsTrail' = <<"idle">>
            /\ error' = NoError
            /\ threedsSessionResult' = NoSession
            /\ paymentResult' = NoResult
            /\ isLoading' = TRUE
            /\ tasks' = tasks \cup {Task(nextOp, "retry", "sdk_wait",
                                         paymentInstrumentResult, tokenResult,
                                         threedsSessionResult.id, apiToken)}
            /\ wire' = NoReq
            /\ nextOp' = nextOp + 1
            /\ UNCHANGED <<tokenResult, inputs, paymentInstrumentResult>>

-----------------------------------------------------------------------------
(* The hook-based App: continuations *)

Replace(t, u) == (tasks \ {t}) \cup {u}

\* createPI settles: the hook's catch and finally, then the rest of
\* App.createPaymentInstrument
CreatePaymentInstrumentSettles(t, resp) ==
    /\ UNCHANGED <<sideVars, pollVars, storageVars, paid, lastSession>>
    /\ t.pc = "pi_wait"
    /\ rx' = Rx("create-instrument", t.id, resp.ok, resp.body, NoPayment)
    /\ done' = Done("createPaymentInstrument", t.id,
                    IF resp.ok THEN "resolved" ELSE "rejected", NoPayment)
    /\ isLoading' = FALSE
    /\ tasks' = tasks \ {t}
    /\ wire' = NoReq
    /\ threeDsTrail' = <<>>
    /\ IF resp.ok
       THEN /\ paymentInstrumentResult' = [id |-> t.id, token |-> t.tok]
            /\ UNCHANGED error
       ELSE /\ error' = HttpErrorMessage(resp, "Failed to create payment instrument")
            /\ UNCHANGED paymentInstrumentResult
    /\ UNCHANGED <<tokenResult, inputs, threedsSessionResult, paymentResult,
                   threeDsStatus, nextOp>>

\* the start of usePaymentFlow.processPayment: setIsLoading(true),
\* setError(null), setThreeDsStatus('idle') and the request
HookProcessPaymentStarts(t, sess) ==
    /\ paid' = paid \cup {t.pi.id}
    /\ isLoading' = TRUE
    /\ error' = NoError
    /\ threeDsStatus' = "idle"
    /\ threeDsTrail' = <<"idle">>
    /\ tasks' = Replace(t, [t EXCEPT !.pc = "pay_wait"])
    /\ wire' = ProcessPaymentReq(t.id, t.pi.id, sess, t.bearer)

PersistAfterSdkFailure(outcome) == TRUE

\* create3DSSession sends the persist request after createLocalSession
\* resolved, not after it rejected
PersistAfterSdk(outcome) == outcome = "resolved"

\* createLocalSession of the SDK settles inside create3DSSession
CreateLocalSessionSettles(t, outcome) ==
    /\ UNCHANGED <<sideVars, pollVars, storageVars, paid, lastSession>>
    /\ t.pc = "sdk_wait"
    /\ rx' = Rx("createLocalSession", t.id, outcome = "resolved", outcome, NoPayment)
    /\ threeDsTrail' = <<>>
    /\ IF PersistAfterSdk(outcome)
       THEN /\ tasks' = Replace(t, [t EXCEPT !.pc = "persist_wait"])
            /\ wire' = CreateSessionReq(t.id, t.pi.id, t.bearer)
            /\ done' = NoDone
            /\ UNCHANGED hook
       ELSE /\ error' = SdkErrorMessage(outcome, "Failed to create 3DS session")
            /\ done' = Done("create3DSSession", t.id, "rejected", NoPayment)
            /\ isLoading' = FALSE
            /\ tasks' = tasks \ {t}
            /\ wire' = NoReq
            /\ UNCHANGED threeDsStatus
    /\ UNCHANGED <<tokenResult, inputs, results, nextOp>>

RetryPaysAfterFailedSession(resp) == TRUE

\* retry3DSFromBeginning reaches processPaymentAPI only if create3DS resolved
RetryPaysAfter(resp) == resp.ok

RetrySessionIdStale(t, session) == t.sess

\* threedsSessionId: newSession.id
RetrySessionId(t, session) == session.id

\* persistThreedsSession settles: the rest of create3DSSession, then of
\* App.createThreedsSession, or of retry3DSFromBeginning up to the await
\* inside processPaymentAPI
PersistSettles(t, resp) ==
    /\ UNCHANGED <<sideVars, pollVars, storageVars>>
    /\ lastSession' = IF resp.ok THEN t.id ELSE lastSession
    /\ t.pc = "persist_wait"
    /\ rx' = Rx("create-session", t.id, resp.ok, resp.body, NoPayment)
    /\ done' = Done("create3DSSession", t.id,
                    IF resp.ok THEN "resolved" ELSE "rejected", NoPayment)
    /\ LET session == [id |-> t.id, paymentInstrumentId |-> t.pi.id] IN
       IF t.kind = "retry" /\ RetryPaysAfter(resp)
       THEN /\ threedsSessionResult' =
                   IF resp.ok THEN session ELSE threedsSessionResult
            /\ HookProcessPaymentStarts(t, RetrySessionId(t, session))
       ELSE /\ isLoading' = FALSE
            /\ UNCHANGED paid
            /\ tasks' = tasks \ {t}
            /\ wire' = NoReq
            /\ threeDsTrail' = <<>>
            /\ IF resp.ok
               THEN threedsSessionResult' = session /\ UNCHANGED error
               ELSE /\ error' = HttpErrorMessage(resp, "Failed to persist session")
                    /\ UNCHANGED threedsSessionResult
            /\ UNCHANGED threeDsStatus
    /\ UNCHANGED <<tokenResult, inputs, paymentInstrumentResult, paymentResult, nextOp>>

Needs3DSAnyAction(payment) == payment.requireAction # "none"

\* result.payment.requireAction !== 'none' && actionData?.type ===
\* 'threeds_auth' && actionData.metadata?.threedsSession
Needs3DS(payment) ==
    /\ payment.requireAction # "none"
    /\ payment.actionType = "threeds_auth"
    /\ payment.threedsSession

\* processPayment of the hook resolves with result: its finally, then
\* setPaymentResult(result) of the App handler
ProcessPaymentResolves(t, result) ==
    /\ done' = Done("processPayment", t.id, "resolved", result)
    /\ isLoading' = FALSE
    /\ paymentResult' = result
    /\ tasks' = tasks \ {t}
    /\ wire' = NoReq

ProcessPaymentRejectsKeepsLoading(t, msg) ==
    /\ done' = Done("processPayment", t.id, "rejected", NoPayment)
    /\ error' = msg
    /\ threeDsStatus' = "failed"
    /\ tasks' = tasks \ {t}
    /\ wire' = NoReq
    /\ UNCHANGED <<paymentResult, isLoading>>

\* processPayment of the hook rejects: setError(errorMsg),
\* setThreeDsStatus('failed'), its finally; the App handler only logs
ProcessPaymentRejects(t, msg) ==
    /\ done' = Done("processPayment", t.id, "rejected", NoPayment)
    /\ error' = msg
    /\ threeDsStatus' = "failed"
    /\ isLoading' = FALSE
    /\ tasks' = tasks \ {t}
    /\ wire' = NoReq
    /\ UNCHANGED paymentResult

ChallengeStartSkipsRequired == <<"in_progress">>

\* setThreeDsStatus('required') of processPayment, then
\* setThreeDsStatus('in_progress') of handle3DSChallenge, in the same run
ChallengeStartTrail == <<"required", "in_progress">>

\* backendClient.processPayment settles inside the hook's processPayment
ProcessPaymentSettles(t, resp) ==
    /\ UNCHANGED <<sideVars, pollVars, storageVars, paid, lastSession>>
    /\ t.pc = "pay_wait"
    /\ rx' = Rx("process-payment", t.id, resp.ok, resp.body, resp.payment)
    /\ IF ~resp.ok
       THEN /\ ProcessPaymentRejects(t, HttpErrorMessage(resp, "Failed to process payment"))
            /\ threeDsTrail' = <<"failed">>
       ELSE IF Needs3DS(resp.payment)
            THEN \* setThreeDsStatus('required'), then handle3DSChallenge up to
                 \* the await of startChallenge: setThreeDsStatus('in_progress')
                 /\ threeDsStatus' = ChallengeStartTrail[Len(ChallengeStartTrail)]
                 /\ threeDsTrail' = ChallengeStartTrail
                 /\ tasks' = Replace(t, [t EXCEPT !.pc = "challenge_wait"])
                 /\ wire' = NoReq
                 /\ done' = NoDone
                 /\ UNCHANGED <<isLoading, error, paymentResult>>
            ELSE /\ ProcessPaymentResolves(t, resp.payment)
                 /\ threeDsTrail' = <<>>
                 /\ UNCHANGED <<error, threeDsStatus>>
    /\ UNCHANGED <<tokenResult, inputs, paymentInstrumentResult, threedsSessionResult,
                   nextOp>>

\* `Payment ${status}: ${error?.message || 'Unknown error'}`; the status
\* responses of the model carry no error.message
PaymentErrorText(payment) == "Payment " \o payment.status \o ": Unknown error"

ChallengeStatusAlwaysCompleted(status) == "completed"

\* finalResult.payment.status === 'succeeded' ? 'completed' : 'failed'
ChallengeStatusAfter(status) == IF status = "succeeded" THEN "completed" ELSE "failed"

\* handle3DSChallenge after a step p of pollPaymentStatus
PollContinues(t, p) ==
    CASE p.pc = "returned" ->
            /\ threeDsStatus' = ChallengeStatusAfter(p.result.status)
            /\ threeDsTrail' = <<ChallengeStatusAfter(p.result.status)>>
            /\ error' = IF p.result.status = "succeeded" THEN error
                        ELSE PaymentErrorText(p.result)
            /\ ProcessPaymentResolves(t, p.result)
      [] p.pc = "thrown" ->
            \* the catch of handle3DSChallenge, then that of processPayment
            /\ ProcessPaymentRejects(t, p.err)
            /\ threeDsTrail' = <<"failed", "failed">>
      [] OTHER ->
            /\ tasks' = Replace(t, [t EXCEPT !.pc = "poll", !.poll = p])
            /\ wire' = IF p.queries > t.poll.queries THEN StatusReq(t.id, t.bearer)
                       ELSE NoReq
            /\ done' = NoDone
            /\ threeDsTrail' = <<>>
            /\ UNCHANGED <<hook, paymentResult>>

PollAfterAnyChallenge(outcome) == TRUE

\* pollPaymentStatus is called after startChallenge resolved; a rejection
\* goes to the catch
PollAfterChallenge(outcome) == outcome = "resolved"

\* startChallenge of the SDK settles inside handle3DSChallenge
StartChallengeSettles(t, outcome) ==
    /\ UNCHANGED <<sideVars, pollVars, storageVars, paid, lastSession>>
    /\ t.pc = "challenge_wait"
    /\ rx' = Rx("startChallenge", t.id, outcome = "resolved", outcome, NoPayment)
    /\ IF PollAfterChallenge(outcome)
       THEN PollContinues(t, PollBegin(DefaultMaxAttempts))
       ELSE \* the catch of handle3DSChallenge, then that of processPayment,
            \* whose message is the one that stays
            /\ ProcessPaymentRejects(t, SdkErrorMessage(outcome,
                                                        "Failed to process payment"))
            /\ threeDsTrail' = <<"failed", "failed">>
    /\ UNCHANGED <<tokenResult, inputs, paymentInstrumentResult, threedsSessionResult,
                   nextOp>>

\* a status fetch of the polling settles
StatusFetchSettles(t, resp) ==
    /\ UNCHANGED <<sideVars, pollVars, storageVars, paid, lastSession>>
    /\ rx' = Rx("status", t.id, resp.ok, "", Unwrap(resp.data))
    /\ t.pc = "poll"
    /\ t.poll.pc = "fetch"
    /\ PollContinues(t, PollOnResponse(t.poll, resp))
    /\ UNCHANGED <<tokenResult, inputs, paymentInstrumentResult, threedsSessionResult,
                   nextOp>>

\* the 1500 ms timer of the polling fires
PollTimerFires(t) ==
    /\ UNCHANGED <<sideVars, pollVars, storageVars, paid, lastSession>>
    /\ rx' = NoRx
    /\ t.pc = "poll"
    /\ t.poll.pc = "sleep"
    /\ PollContinues(t, PollOnTimer(t.poll))
    /\ UNCHANGED <<tokenResult, inputs, paymentInstrumentResult, threedsSessionResult,
                   nextOp>>

-----------------------------------------------------------------------------
(* Specifications *)

Next ==
    \/ \E t \in Tokens : HandleTokenized(t)
    \/ \E t \in Tokens : HandleSelectTokenFromHistory(t)
    \/ ResetToken
    \/ \E v \in ApiTokens : SetApiToken(v)
    \/ \E v \in StoreIds : SetStoreId(v)
    \/ \E v \in Amounts : SetPaymentAmount(v)
    \/ ClickCreatePaymentInstrument
    \/ ClickCreateThreedsSession
    \/ ClickProcessPayment
    \/ ClickRetry
    \/ \E t \in tasks, resp \in HttpFailures \cup {HttpOk} :
          CreatePaymentInstrumentSettles(t, resp)
    \/ \E t \in tasks, outcome \in SdkOutcomes : CreateLocalSessionSettles(t, outcome)
    \/ \E t \in tasks, resp \in HttpFailures \cup {HttpOk} : PersistSettles(t, resp)
    \/ \E t \in tasks, resp \in ProcessResponses : ProcessPaymentSettles(t, resp)
    \/ \E t \in tasks, outcome \in SdkOutcomes : StartChallengeSettles(t, outcome)
    \/ \E t \in tasks, resp \in StatusResponses(0) : StatusFetchSettles(t, resp)
    \/ \E t \in tasks : PollTimerFires(t)

Spec == Init /\ [][Next]_vars

-----------------------------------------------------------------------------
(* PollSpec: pollPaymentStatus on its own *)

\* what the first terminal response carried, as the network saw it
NoteTerminal(seen, resp) ==
    IF seen = NoPayment /\ resp.ok /\ Unwrap(resp.data).status \in TerminalStatuses
    THEN Unwrap(resp.data) ELSE seen

PollInit ==
    /\ \E m \in (0..PollMaxAttempts) \cup {DefaultMaxAttempts} : poll = PollBegin(m)
    /\ firstTerminal = NoPayment
    /\ answered = NoPayment
    /\ tokenResult = NoToken
    /\ apiToken = ""
    /\ storeId = "store_eaa20d619f6b"
    /\ paymentAmount = 2999
    /\ paymentInstrumentResult = NoInstrument
    /\ threedsSessionResult = NoSession
    /\ paymentResult = NoResult
    /\ isLoading = FALSE
    /\ error = NoError
    /\ threeDsStatus = "idle"
    /\ tasks = {}
    /\ nextOp = 1
    /\ wire = NoReq
    /\ rx = NoRx
    /\ done = NoDone
    /\ paid = {}
    /\ lastSession = 0
    /\ threeDsTrail = <<>>
    /\ StorageEmpty
    /\ SideIdle

PollResponse ==
    /\ UNCHANGED <<sideVars, appVars, storageVars>>
    /\ poll.pc = "fetch"
    /\ \E resp \in StatusResponses(poll.queries) :
          /\ poll' = PollOnResponse(poll, resp)
          /\ firstTerminal' = NoteTerminal(firstTerminal, resp)
          /\ answered' = Unwrap(resp.data)

PollTimer ==
    /\ UNCHANGED <<sideVars, appVars, storageVars>>
    /\ poll.pc = "sleep"
    /\ poll' = PollOnTimer(poll)
    /\ answered' = NoPayment
    /\ UNCHANGED firstTerminal

PollNext == PollResponse \/ PollTimer

\* every fetch settles and every timer fires
PollSpec == PollInit /\ [][PollNext]_vars /\ WF_vars(PollNext)

-----------------------------------------------------------------------------
(* localStorage histories *)

\* const MAX_HISTORY_ITEMS = 10
MaxHistoryItems == 10

\* save calls in one run
MaxSaves == 13

\* calls among them whose store id was saved before
MaxRepeats == 2

\* Array.prototype.slice(0, n)
Slice(list, n) == SubSeq(list, 1, IF Len(list) < n THEN Len(list) ELSE n)

FilteredHistoryKeepsDuplicate(history, id) == history

\* history.filter((item) => item.storeId !== storeId)
FilteredHistory(history, id) == SelectSeq(history, LAMBDA item : item.storeId # id)

\* [newItem, ...filteredHistory].slice(0, MAX_HISTORY_ITEMS)
UpdatedStoreHistory(history, id, now) ==
    Slice(<<[storeId |-> id, timestamp |-> now]>> \o FilteredHistory(history, id),
          MaxHistoryItems)

\* store ids are only compared with each other, so an id saved for the first
\* time is named by the next number; any id saved before can be saved again
StoreIdArgs ==
    {lastSave.ids + 1} \cup (IF lastSave.again < MaxRepeats THEN 1..lastSave.ids ELSE {})

NoteStoreSave(fn, id) ==
    [lastSave EXCEPT !.fn = fn, !.arg = id,
                     !.ids = IF id > @ THEN id ELSE @,
                     !.again = IF id > lastSave.ids THEN @ ELSE @ + 1]

\* saveStoreToHistory(storeId)
SaveStoreToHistory(id) ==
    /\ clock < MaxSaves
    /\ clock' = clock + 1
    /\ storeHistory' = UpdatedStoreHistory(storeHistory, id, clock + 1)
    /\ lastSave' = NoteStoreSave("saveStoreToHistory", id)
    /\ UNCHANGED <<sideVars, pollVars, appVars, tokenHistory, currentStore>>

\* saveCurrentStore(storeId): the current store, then saveStoreToHistory
SaveCurrentStore(id) ==
    /\ clock < MaxSaves
    /\ clock' = clock + 1
    /\ currentStore' = id
    /\ storeHistory' = UpdatedStoreHistory(storeHistory, id, clock + 1)
    /\ lastSave' = NoteStoreSave("saveCurrentStore", id)
    /\ UNCHANGED <<sideVars, pollVars, appVars, tokenHistory>>

StoreHistoryNext ==
    \/ \E id \in StoreIdArgs : SaveStoreToHistory(id)
    \/ \E id \in StoreIdArgs : SaveCurrentStore(id)

StoreHistorySpec == Init /\ [][StoreHistoryNext]_vars

UpdatedTokenHistoryKeepsAll(history, token, now) ==
    <<[id |-> now, tagadaToken |-> token, timestamp |-> now]>> \o history

\* [newItem, ...history].slice(0, MAX_HISTORY_ITEMS), newItem with
\* id `token_${Date.now()}` and timestamp Date.now()
UpdatedTokenHistory(history, token, now) ==
    Slice(<<[id |-> now, tagadaToken |-> token, timestamp |-> now]>> \o history,
          MaxHistoryItems)

\* saveTokenToHistory({tagadaToken, cardLast4, cardBrand})
SaveTokenToHistory(token) ==
    /\ clock < MaxSaves
    /\ clock' = clock + 1
    /\ tokenHistory' = UpdatedTokenHistory(tokenHistory, token, clock + 1)
    /\ lastSave' = [lastSave EXCEPT !.fn = "saveTokenToHistory", !.arg = token,
                                    !.log = Append(@, token)]
    /\ UNCHANGED <<sideVars, pollVars, appVars, storeHistory, currentStore>>

TokenHistoryNext == \E token \in Tokens : SaveTokenToHistory(token)

TokenHistorySpec == Init /\ [][TokenHistoryNext]_vars

-----------------------------------------------------------------------------
(* ManualSpec: the App that calls fetch and the 3DS SDK itself and keeps   *)
(* one loading flag per operation                                          *)

\* handler calls and Start Overs of one run of the model
MaxManualOps == 4

MaxCheckouts == 2

\* the token of this App's card form and history: which token is held
\* plays no part in its requests
ManualTokens == {"tagadaToken_a"}

\* a payment as the App stores it: the body of a response with the id of
\* the payment it describes
ManualPaymentOf(p, id) ==
    [id |-> id, status |-> p.status, requireAction |-> p.requireAction,
     actionType |-> p.actionType, threedsSession |-> p.threedsSession]

\* what the fetch of payments/process can deliver
ManualProcessResponses ==
    {[ok |-> FALSE, payment |-> NoPayment]}
        \cup {[ok |-> TRUE, payment |-> p] :
                p \in {q \in ProcessPayments :
                          /\ q.status \in {"succeeded", "pending", "declined"}
                          /\ q.requireAction \in {"none", "threeds_auth"}
                          /\ q.actionType \in {"", "threeds_auth"}}}

ManualTask(id, kind, pc, pi, challenge) ==
    [id |-> id, kind |-> kind, pc |-> pc, pi |-> pi, challenge |-> challenge,
     poll |-> PollIdle]

\* errorData.error || `HTTP ${response.status}: ${response.statusText}`
ManualHttpError == "HTTP 400: Bad Request"

\* isLoading of useThreeds: set while a call into the SDK is pending
ManualIsThreeDsLoading ==
    \E t \in manualTasks : t.pc \in {"sdk_wait", "challenge_wait"}

ManualCreatePaymentInstrumentShown ==
    /\ manual.tokenResult # NoToken
    /\ manual.paymentInstrumentResult = 0
    /\ manual.paymentResult = NoManualPayment

ManualCreatePaymentInstrumentDisabled ==
    manual.isCreatingPaymentInstrument \/ Trim(manual.apiToken) = ""

ManualCreateThreedsSessionShown ==
    /\ manual.tokenResult # NoToken
    /\ manual.paymentInstrumentResult # 0
    /\ manual.threedsSessionResult = 0

ManualCreateThreedsSessionDisabled ==
    manual.isCreatingThreedsSession \/ ManualIsThreeDsLoading

ManualProcessPaymentShown ==
    /\ manual.tokenResult # NoToken
    /\ manual.paymentInstrumentResult # 0
    /\ manual.paymentResult = NoManualPayment

\* disabled={isProcessingPayment || isThreeDsLoading || !paymentAmount ||
\* !storeId.trim()}, with the amount and the store id left at their defaults
ManualProcessPaymentDisabled == manual.isProcessingPayment \/ ManualIsThreeDsLoading

\* {threeDsStatus === 'failed' && lastChallengeData && ...} of the action bar
ManualRetryShown ==
    /\ manual.tokenResult # NoToken
    /\ manual.threeDsStatus = "failed"
    /\ manual.lastChallengeData # NoManualPayment

ManualRetryDisabled == ManualIsThreeDsLoading

ManualFrame == UNCHANGED <<pollVars, appVars, storageVars, walletVars, expressVars>>

ManualHandleTokenized(t) ==
    /\ ManualFrame
    /\ manual.tokenResult = NoToken
    /\ manual' = [manual EXCEPT !.tokenResult = t]
    /\ manualLog' = NoManualLog
    /\ UNCHANGED <<manualTasks, manualOps, checkout, latestResponse>>

ManualHandleSelectTokenFromHistory(t) ==
    /\ ManualFrame
    /\ manual' = [manual EXCEPT !.tokenResult = t]
    /\ manualLog' = NoManualLog
    /\ UNCHANGED <<manualTasks, manualOps, checkout, latestResponse>>

\* the API token input of the Step 2 card
ManualSetApiToken(v) ==
    /\ ManualFrame
    /\ ManualCreatePaymentInstrumentShown
    /\ manual' = [manual EXCEPT !.apiToken = v]
    /\ manualLog' = NoManualLog
    /\ UNCHANGED <<manualTasks, manualOps, checkout, latestResponse>>

\* Start Over
ManualResetToken ==
    /\ ManualFrame
    /\ manual.tokenResult # NoToken
    /\ checkout < MaxCheckouts
    /\ manual' = [manual EXCEPT !.tokenResult = NoToken,
                                !.paymentInstrumentResult = 0,
                                !.paymentResult = NoManualPayment,
                                !.apiError = NoError,
                                !.threedsSessionResult = 0,
                                !.threeDsStatus = "idle"]
    /\ checkout' = checkout + 1
    /\ latestResponse' = NoManualPayment
    /\ manualLog' = NoManualLog
    /\ UNCHANGED <<manualTasks, manualOps>>

\* createPaymentInstrument up to its fetch
ManualClickCreatePaymentInstrument ==
    /\ ManualFrame
    /\ ManualCreatePaymentInstrumentShown
    /\ ~ManualCreatePaymentInstrumentDisabled
    /\ manualOps < MaxManualOps
    /\ manualOps' = manualOps + 1
    /\ IF manual.tokenResult = NoToken \/ Trim(manual.apiToken) = ""
       THEN /\ manual' = [manual EXCEPT
                             !.apiError = "Please provide API token and Store ID"]
            /\ manualLog' = NoManualLog
            /\ UNCHANGED manualTasks
       ELSE /\ manual' = [manual EXCEPT !.isCreatingPaymentInstrument = TRUE,
                                        !.apiError = NoError]
            /\ manualTasks' = manualTasks \cup
                  {ManualTask(manualOps + 1, "pi", "pi_wait", 0, NoManualPayment)}
            /\ manualLog' = [NoManualLog EXCEPT !.sent = "create-instrument"]
    /\ UNCHANGED <<checkout, latestResponse>>

\* the create-from-token fetch settles
ManualCreatePaymentInstrumentSettles(t, ok) ==
    /\ ManualFrame
    /\ t.pc = "pi_wait"
    /\ manual' = [manual EXCEPT
                     !.paymentInstrumentResult = IF ok THEN t.id ELSE @,
                     !.apiError = IF ok THEN @ ELSE ManualHttpError,
                     !.isCreatingPaymentInstrument = FALSE]
    /\ manualTasks' = manualTasks \ {t}
    /\ manualLog' = NoManualLog
    /\ UNCHANGED <<manualOps, checkout, latestResponse>>

\* createThreedsSession up to the await of createLocalSession
ManualClickCreateThreedsSession ==
    /\ ManualFrame
    /\ ManualCreateThreedsSessionShown
    /\ ~ManualCreateThreedsSessionDisabled
    /\ manualOps < MaxManualOps
    /\ manualOps' = manualOps + 1
    /\ manualLog' = NoManualLog
    /\ IF \/ manual.paymentInstrumentResult = 0
          \/ Trim(manual.apiToken) = ""
          \/ manual.tokenResult = NoToken
       THEN /\ manual' = [manual EXCEPT !.apiError =
                             "Payment instrument, API token, and Store ID are required"]
            /\ UNCHANGED manualTasks
       ELSE /\ manual' = [manual EXCEPT !.isCreatingThreedsSession = TRUE,
                                        !.apiError = NoError]
            /\ manualTasks' = manualTasks \cup
                  {ManualTask(manualOps + 1, "session", "sdk_wait",
                              manual.paymentInstrumentResult, NoManualPayment)}
    /\ UNCHANGED <<checkout, latestResponse>>

\* createLocalSession settles inside createThreedsSession
ManualCreateLocalSessionSettles(t, outcome) ==
    /\ ManualFrame
    /\ t.kind = "session"
    /\ t.pc = "sdk_wait"
    /\ IF outcome = "resolved"
       THEN /\ manualTasks' = (manualTasks \ {t}) \cup {[t EXCEPT !.pc = "persist_wait"]}
            /\ manualLog' = [NoManualLog EXCEPT !.sent = "create-session"]
            /\ UNCHANGED manual
       ELSE /\ manual' = [manual EXCEPT
                             !.apiError = SdkErrorMessage(outcome,
                                                          "Failed to create 3DS session"),
                             !.isCreatingThreedsSession = FALSE]
            /\ manualTasks' = manualTasks \ {t}
            /\ manualLog' = NoManualLog
    /\ UNCHANGED <<manualOps, checkout, latestResponse>>

\* the threeds/create-session fetch settles
ManualPersistSettles(t, ok) ==
    /\ ManualFrame
    /\ t.pc = "persist_wait"
    /\ manual' = [manual EXCEPT
                     !.threedsSessionResult = IF ok THEN t.id ELSE @,
                     !.apiError = IF ok THEN @ ELSE ManualHttpError,
                     !.isCreatingThreedsSession = FALSE]
    /\ manualTasks' = manualTasks \ {t}
    /\ manualLog' = NoManualLog
    /\ UNCHANGED <<manualOps, checkout, latestResponse>>

\* processPayment up to its fetch
ManualClickProcessPayment ==
    /\ ManualFrame
    /\ ManualProcessPaymentShown
    /\ ~ManualProcessPaymentDisabled
    /\ manualOps < MaxManualOps
    /\ manualOps' = manualOps + 1
    /\ IF manual.paymentInstrumentResult = 0 \/ Trim(manual.apiToken) = ""
       THEN /\ manual' = [manual EXCEPT !.apiError =
                             "Payment instrument and API token are required"]
            /\ manualLog' = NoManualLog
            /\ UNCHANGED manualTasks
       ELSE /\ manual' = [manual EXCEPT !.isProcessingPayment = TRUE,
                                        !.apiError = NoError,
                                        !.threeDsStatus = "idle"]
            /\ manualTasks' = manualTasks \cup
                  {ManualTask(manualOps + 1, "pay", "pay_wait",
                              manual.paymentInstrumentResult, NoManualPayment)}
            /\ manualLog' = [NoManualLog EXCEPT !.sent = "process-payment"]
    /\ UNCHANGED <<checkout, latestResponse>>

\* the end of a handler call: the finally of processPayment, nothing more
\* for retryChallenge
ManualEnds(t, m) ==
    /\ manual' = [m EXCEPT !.isProcessingPayment = IF t.kind = "pay" THEN FALSE ELSE @]
    /\ manualTasks' = manualTasks \ {t}

\* handle3DSChallenge up to the await of startChallenge, called with the
\* payment result data by the handler call t on the state m
ManualChallengeStarts(t, m, data, by) ==
    /\ manual' = [m EXCEPT !.lastChallengeData = data, !.threeDsStatus = "in_progress"]
    /\ manualTasks' = (manualTasks \ {t}) \cup
          {[t EXCEPT !.pc = "challenge_wait", !.challenge = data]}
    /\ manualLog' = [NoManualLog EXCEPT !.challenge = data, !.by = by]

\* the payments/process fetch settles
ManualProcessPaymentSettles(t, resp) ==
    /\ ManualFrame
    /\ t.pc = "pay_wait"
    /\ UNCHANGED <<manualOps, checkout>>
    /\ IF ~resp.ok
       THEN /\ ManualEnds(t, [manual EXCEPT !.apiError = ManualHttpError,
                                            !.threeDsStatus = "failed"])
            /\ manualLog' = NoManualLog
            /\ UNCHANGED latestResponse
       ELSE LET result == ManualPaymentOf(resp.payment, t.id)
                m == [manual EXCEPT !.paymentResult = result]
            IN  /\ latestResponse' = result
                /\ IF Needs3DS(result)
                   THEN ManualChallengeStarts(t, m, result, "processPayment")
                   ELSE /\ ManualEnds(t, m)
                        /\ manualLog' = NoManualLog

\* retryChallenge up to the await of startChallenge
ManualClickRetry ==
    /\ ManualFrame
    /\ ManualRetryShown
    /\ ~ManualRetryDisabled
    /\ manualOps < MaxManualOps
    /\ manualOps' = manualOps + 1
    /\ UNCHANGED <<checkout, latestResponse>>
    /\ IF manual.lastChallengeData = NoManualPayment
       THEN /\ manual' = [manual EXCEPT !.apiError =
                             "No challenge data available to retry"]
            /\ manualLog' = NoManualLog
            /\ UNCHANGED manualTasks
       ELSE LET t == ManualTask(manualOps + 1, "retry", "new", 0, NoManualPayment)
                m == [manual EXCEPT !.apiError = NoError, !.threeDsStatus = "idle"]
            IN  /\ manual' = [m EXCEPT !.threeDsStatus = "in_progress"]
                /\ manualTasks' = manualTasks \cup
                      {[t EXCEPT !.pc = "challenge_wait",
                                 !.challenge = manual.lastChallengeData]}
                /\ manualLog' = [NoManualLog EXCEPT
                                    !.challenge = manual.lastChallengeData,
                                    !.by = "retryChallenge"]

\* handle3DSChallenge after a step p of its pollPaymentStatus, on the state m
ManualPollContinues(t, m, p) ==
    CASE p.pc = "returned" ->
            /\ ManualEnds(t, [m EXCEPT
                  !.paymentResult = ManualPaymentOf(p.result, t.challenge.id),
                  !.threeDsStatus = ChallengeStatusAfter(p.result.status),
                  !.apiError = IF p.result.status = "succeeded" THEN @
                               ELSE "Payment failed after 3DS authentication"])
            /\ manualLog' = NoManualLog
      [] p.pc = "thrown" ->
            /\ ManualEnds(t, [m EXCEPT !.threeDsStatus = "failed", !.apiError = p.err])
            /\ manualLog' = NoManualLog
      [] OTHER ->
            /\ manualTasks' = (manualTasks \ {t}) \cup
                  {[t EXCEPT !.pc = "poll", !.poll = p]}
            /\ manualLog' = [NoManualLog EXCEPT
                                !.sent = IF p.queries > t.poll.queries THEN "status"
                                         ELSE "none"]
            /\ manual' = m

\* startChallenge settles inside handle3DSChallenge
ManualStartChallengeSettles(t, outcome) ==
    /\ ManualFrame
    /\ t.pc = "challenge_wait"
    /\ UNCHANGED <<manualOps, checkout, latestResponse>>
    /\ IF outcome = "resolved"
       THEN \* setThreeDsStatus('completed'), then pollPaymentStatus
            ManualPollContinues(t, [manual EXCEPT !.threeDsStatus = "completed"],
                                PollBegin(DefaultMaxAttempts))
       ELSE /\ ManualEnds(t, [manual EXCEPT
                  !.threeDsStatus = "failed",
                  !.apiError = SdkErrorMessage(outcome,
                                  IF t.kind = "pay" THEN "Failed to process payment"
                                  ELSE "Failed to start 3DS challenge")])
            /\ manualLog' = NoManualLog

\* a status fetch of the polling settles
ManualStatusFetchSettles(t, resp) ==
    /\ ManualFrame
    /\ t.pc = "poll"
    /\ t.poll.pc = "fetch"
    /\ UNCHANGED <<manualOps, checkout, latestResponse>>
    /\ ManualPollContinues(t, manual, PollOnResponse(t.poll, resp))

\* the 1500 ms timer of the polling fires
ManualPollTimerFires(t) ==
    /\ ManualFrame
    /\ t.pc = "poll"
    /\ t.poll.pc = "sleep"
    /\ UNCHANGED <<manualOps, checkout, latestResponse>>
    /\ ManualPollContinues(t, manual, PollOnTimer(t.poll))

ManualNext ==
    \/ \E t \in ManualTokens : ManualHandleTokenized(t)
    \/ \E t \in ManualTokens : ManualHandleSelectTokenFromHistory(t)
    \/ \E v \in ApiTokens : ManualSetApiToken(v)
    \/ ManualResetToken
    \/ ManualClickCreatePaymentInstrument
    \/ ManualClickCreateThreedsSession
    \/ ManualClickProcessPayment
    \/ ManualClickRetry
    \/ \E t \in manualTasks, ok \in BOOLEAN : ManualCreatePaymentInstrumentSettles(t, ok)
    \/ \E t \in manualTasks, outcome \in SdkOutcomes :
          ManualCreateLocalSessionSettles(t, outcome)
    \/ \E t \in manualTasks, ok \in BOOLEAN : ManualPersistSettles(t, ok)
    \/ \E t \in manualTasks, resp \in ManualProcessResponses :
          ManualProcessPaymentSettles(t, resp)
    \/ \E t \in manualTasks, outcome \in SdkOutcomes :
          ManualStartChallengeSettles(t, outcome)
    \/ \E t \in manualTasks, resp \in StatusResponses(0) :
          ManualStatusFetchSettles(t, resp)
    \/ \E t \in manualTasks : ManualPollTimerFires(t)

ManualSpec == Init /\ [][ManualNext]_vars

-----------------------------------------------------------------------------
(* The Apple Pay / Google Pay App: two wallet buttons, each inside a div whose
   onClick is handleButtonClick.  A click runs the button's own handler
   first and then, as the event bubbles, the div's handler; React applies
   the state updates of both together. *)

MaxWalletOps == 4

WalletKinds == {"applePay", "googlePay"}

\* what a button's click handler can report before its first await: for
\* Apple Pay the whole of handleApplePay runs inside the click, canMakePayments
\* can answer false and the ApplePaySession constructor and begin() can throw;
\* for Google Pay the PaymentsClient constructor can throw
WalletSyncMessages(kind) ==
    IF kind = "applePay"
    THEN {"Apple Pay is not available on this device/browser",
          "Page already has an active payment session."}
    ELSE {"google is not defined"}

\* what a button can report later, from a session callback or after an await
WalletAsyncMessages(kind) ==
    IF kind = "applePay"
    THEN {"Merchant validation failed", "Payment processing failed",
          "Payment cancelled", "Apple Pay session error"}
    ELSE {"Google Pay is not available on this device/browser", "Google Pay error"}

WalletInstrumentType(type) == IF type = "applePay" THEN "apple_pay" ELSE "google_pay"

handleError(w, errorMessage) ==
    [w EXCEPT !.error = errorMessage, !.isProcessing = FALSE]

handleButtonClick(w) ==
    [w EXCEPT !.error = "", !.tokenResult = "null", !.paymentInstrumentResult = "null",
              !.isProcessing = TRUE]

WalletButtonsShown == wallet.tokenResult = "null"

WalletButtonDisabled == wallet.isProcessing

WalletCreateInstrumentShown ==
    wallet.tokenResult # "null" /\ wallet.paymentInstrumentResult = "null"

WalletCreateInstrumentDisabled ==
    wallet.isCreatingInstrument \/ wallet.apiToken = ""

WalletFrame == UNCHANGED <<pollVars, appVars, storageVars, manualVars, expressVars>>

\* a click on a wallet button: thrown is "" when the button's handler gets
\* as far as its first wait, else the message of its synchronous failure
WalletClickButton(kind, thrown) ==
    /\ WalletButtonsShown
    /\ ~WalletButtonDisabled
    /\ walletOps < MaxWalletOps
    /\ LET afterButton == IF thrown = "" THEN wallet ELSE handleError(wallet, thrown)
       IN  wallet' = handleButtonClick(afterButton)
    /\ walletAttempts' = IF thrown = ""
                         THEN walletAttempts \cup {[id |-> walletOps + 1, kind |-> kind]}
                         ELSE walletAttempts
    /\ walletOps' = walletOps + 1
    /\ walletReported' = thrown
    /\ WalletFrame

WalletAttemptFails(a, message) ==
    /\ a \in walletAttempts
    /\ a.kind \in WalletKinds
    /\ message \in WalletAsyncMessages(a.kind)
    /\ wallet' = handleError(wallet, message)
    /\ walletAttempts' = walletAttempts \ {a}
    /\ walletReported' = message
    /\ UNCHANGED walletOps
    /\ WalletFrame

\* handleApplePaySuccess, handleGooglePaySuccess
WalletAttemptSucceeds(a) ==
    /\ a \in walletAttempts
    /\ a.kind \in WalletKinds
    /\ wallet' = [wallet EXCEPT !.tokenResult = a.kind, !.isProcessing = FALSE]
    /\ walletAttempts' = walletAttempts \ {a}
    /\ walletReported' = ""
    /\ UNCHANGED walletOps
    /\ WalletFrame

WalletSetApiToken(v) ==
    /\ wallet.apiToken # v
    /\ wallet' = [wallet EXCEPT !.apiToken = v]
    /\ walletReported' = ""
    /\ UNCHANGED <<walletAttempts, walletOps>>
    /\ WalletFrame

resetFlow ==
    /\ wallet.tokenResult # "null"
    /\ walletOps < MaxWalletOps
    /\ wallet' = [wallet EXCEPT !.tokenResult = "null", !.paymentInstrumentResult = "null",
                                !.error = "", !.isProcessing = FALSE]
    /\ walletOps' = walletOps + 1
    /\ walletReported' = ""
    /\ UNCHANGED walletAttempts
    /\ WalletFrame

WalletClickCreateInstrument ==
    /\ WalletCreateInstrumentShown
    /\ ~WalletCreateInstrumentDisabled
    /\ walletOps < MaxWalletOps
    /\ wallet' = [wallet EXCEPT !.isCreatingInstrument = TRUE, !.error = ""]
    /\ walletAttempts' = walletAttempts \cup
           {[id |-> walletOps + 1, kind |-> WalletInstrumentType(wallet.tokenResult)]}
    /\ walletOps' = walletOps + 1
    /\ walletReported' = ""
    /\ WalletFrame

\* the mock call is a timer, which never fails
WalletCreateInstrumentSettles(a) ==
    /\ a \in walletAttempts
    /\ a.kind \notin WalletKinds
    /\ wallet' = [wallet EXCEPT !.paymentInstrumentResult = a.kind,
                                !.isCreatingInstrument = FALSE]
    /\ walletAttempts' = walletAttempts \ {a}
    /\ walletReported' = ""
    /\ UNCHANGED walletOps
    /\ WalletFrame

WalletNext ==
    \/ \E kind \in WalletKinds :
          \E thrown \in {""} \cup WalletSyncMessages(kind) : WalletClickButton(kind, thrown)
    \/ \E a \in walletAttempts :
          \E message \in WalletAsyncMessages("applePay") \cup WalletAsyncMessages("googlePay") :
             WalletAttemptFails(a, message)
    \/ \E a \in walletAttempts : WalletAttemptSucceeds(a)
    \/ \E v \in {"", "api_key"} : WalletSetApiToken(v)
    \/ resetFlow
    \/ WalletClickCreateInstrument
    \/ \E a \in walletAttempts : WalletCreateInstrumentSettles(a)

WalletSpec == Init /\ [][WalletNext]_vars

-----------------------------------------------------------------------------
(* GooglePayExpressCheckout: the order summary, the shipping options and the
   selected option id are React state; the Google Pay sheet reports address
   and option changes through onPaymentDataChanged, and an effect that
   depends on calculateOrderSummary calculates the summary of the default
   address. *)

MaxExpressOps == 3

ExpressAddresses ==
    {[countryCode |-> "US", administrativeArea |-> "CA"],
     [countryCode |-> "US", administrativeArea |-> "OR"],
     [countryCode |-> "FR", administrativeArea |-> ""]}

ExpressOptionIds == {"standard", "express", "overnight"}

\* mockShippingService.calculateShipping; a price is the string of an amount
\* with two decimals, held here as its number of cents
calculateShipping(address) ==
    LET baseShipping == IF address.countryCode = "US" THEN 599 ELSE 1299
    IN  << [id |-> "standard",  price |-> baseShipping],
           [id |-> "express",   price |-> baseShipping + 500],
           [id |-> "overnight", price |-> baseShipping + 1500] >>

\* the rates of taxRates, in 1/Unit
taxRate(administrativeArea) ==
    CASE administrativeArea = "CA" -> 875
      [] administrativeArea = "NY" -> 800
      [] administrativeArea = "TX" -> 625
      [] administrativeArea = "FL" -> 600
      [] OTHER -> 500

\* mockShippingService.calculateTax; amount is a whole number of cents in
\* 1/Unit, so the division is exact
calculateTax(address, amount) == (amount \div Unit) * taxRate(address.administrativeArea)

\* parseFloat of a price
parsePrice(price) == price * Unit

\* availableShipping.find(option => option.id === id) || availableShipping[0]
ExpressFind(availableShipping, id) ==
    IF \E i \in 1..Len(availableShipping) : availableShipping[i].id = id
    THEN availableShipping[CHOOSE i \in 1..Len(availableShipping) :
                              /\ availableShipping[i].id = id
                              /\ \A j \in 1..(i - 1) : availableShipping[j].id # id]
    ELSE availableShipping[1]

\* selected is the selectedShippingId of the render the callback was made in
calculateOrderSummary(shippingAddress, shippingOptionId, selected) ==
    LET subtotal == initialAmount * Unit
        selectedShipping ==
            ExpressFind(calculateShipping(shippingAddress),
                        IF shippingOptionId # "" THEN shippingOptionId ELSE selected)
        shipping == IF shippingAddress # NoAddress THEN parsePrice(selectedShipping.price) ELSE 0
        tax == IF shippingAddress # NoAddress
               THEN calculateTax(shippingAddress, subtotal + shipping) ELSE 0
    IN  [subtotal |-> subtotal, shipping |-> shipping, tax |-> tax,
         total |-> subtotal + shipping + tax]

ExpressTask(id, kind, pc, address, optionId) ==
    [id |-> id, kind |-> kind, pc |-> pc, shippingAddress |-> address,
     shippingOptionId |-> optionId]

\* the effect of lines 333-353 runs again after every render in which
\* calculateOrderSummary is a new function, that is, in which
\* selectedShippingId has changed
ExpressEffectRuns(e, id) ==
    IF e.selectedShippingId # express.selectedShippingId
    THEN {ExpressTask(id, "effect", "options", defaultAddress, "standard")}
    ELSE {}

ExpressFrame == UNCHANGED <<pollVars, appVars, storageVars, manualVars, walletVars>>

\* onPaymentDataChanged when the sheet opens, with the address of the user
\* and the option the payment request names as selected: no branch of the
\* handler is taken, isCalculating is set and reset in one run
ExpressSheetOpens(address) ==
    /\ sheet.trigger = "none"
    /\ ~express.isCalculating
    /\ expressOps < MaxExpressOps
    /\ sheet' = [trigger |-> "INITIALIZE", shippingAddress |-> address,
                 shippingOptionId |-> express.selectedShippingId]
    /\ expressOps' = expressOps + 1
    /\ UNCHANGED <<express, expressTasks>>
    /\ ExpressFrame

\* handleShippingAddressChange up to its first await; the sheet waits for
\* the answer of one callback before it makes the next
ExpressAddressChanged(address) ==
    /\ sheet.trigger # "none"
    /\ ~express.isCalculating
    /\ expressOps < MaxExpressOps
    /\ address # sheet.shippingAddress
    /\ sheet' = [sheet EXCEPT !.trigger = "SHIPPING_ADDRESS", !.shippingAddress = address]
    /\ express' = [express EXCEPT !.isCalculating = TRUE]
    /\ expressTasks' = expressTasks \cup
           {ExpressTask(expressOps + 1, "address", "options", address, "")}
    /\ expressOps' = expressOps + 1
    /\ ExpressFrame

ExpressOptionChanged(optionId) ==
    /\ sheet.trigger # "none"
    /\ ~express.isCalculating
    /\ expressOps < MaxExpressOps
    /\ optionId # sheet.shippingOptionId
    /\ sheet' = [sheet EXCEPT !.trigger = "SHIPPING_OPTION", !.shippingOptionId = optionId]
    /\ express' = [express EXCEPT !.isCalculating = TRUE]
    /\ expressTasks' = expressTasks \cup
           {ExpressTask(expressOps + 1, "option", "summary", sheet.shippingAddress, optionId)}
    /\ expressOps' = expressOps + 1
    /\ ExpressFrame

\* calculateShipping has answered the handler of an address change or the
\* effect: setShippingOptions, then calculateOrderSummary for the first option
ExpressOptionsSettle(t) ==
    /\ t \in expressTasks
    /\ t.pc = "options"
    /\ LET newShippingOptions == calculateShipping(t.shippingAddress)
       IN  /\ express' = [express EXCEPT !.shippingOptions = newShippingOptions]
           /\ expressTasks' = (expressTasks \ {t}) \cup
                  {[t EXCEPT !.pc = "summary", !.shippingOptionId = newShippingOptions[1].id]}
    /\ UNCHANGED <<expressOps, sheet>>
    /\ ExpressFrame

\* calculateOrderSummary has answered: the effect stores the summary, a
\* handler stores the summary and the option id and ends the calculation;
\* the answer to an address change names the first option as selected
ExpressSummarySettles(t) ==
    /\ t \in expressTasks
    /\ t.pc = "summary"
    /\ LET newOrderSummary ==
               calculateOrderSummary(t.shippingAddress, t.shippingOptionId,
                                     express.selectedShippingId)
           e == IF t.kind = "effect"
                THEN [express EXCEPT !.orderSummary = newOrderSummary]
                ELSE [express EXCEPT !.orderSummary = newOrderSummary,
                                     !.selectedShippingId = t.shippingOptionId,
                                     !.isCalculating = FALSE]
       IN  /\ express' = e
           /\ expressTasks' = (expressTasks \ {t}) \cup ExpressEffectRuns(e, t.id + MaxExpressOps)
    /\ sheet' = IF t.kind = "address"
                THEN [sheet EXCEPT !.shippingOptionId = t.shippingOptionId]
                ELSE sheet
    /\ UNCHANGED expressOps
    /\ ExpressFrame

ExpressNext ==
    \/ \E address \in ExpressAddresses : ExpressSheetOpens(address)
    \/ \E address \in ExpressAddresses : ExpressAddressChanged(address)
    \/ \E optionId \in ExpressOptionIds : ExpressOptionChanged(optionId)
    \/ \E t \in expressTasks : ExpressOptionsSettle(t)
    \/ \E t \in expressTasks : ExpressSummarySettles(t)

ExpressSpec == Init /\ [][ExpressNext]_vars

-----------------------------------------------------------------------------
(* C1 *)

\* C1: pollPaymentStatus issues at most maxAttempts status queries and
\* every call ends, by returning a result or by throwing
C1_PollTerminates ==
    /\ [](poll.queries <= poll.max)
    /\ <>(PollSettled(poll))

\* a call that used up all maxAttempts > 0 queries and ended
C1_Witness ==
    /\ poll.pc = "thrown"
    /\ poll.err = "Payment verification timeout"
    /\ poll.max = DefaultMaxAttempts
    /\ poll.queries = poll.max

(* C2 *)

C3_TimeoutSurfaced ==
    [][\A t \in tasks :
          (/\ t.pc = "poll"
           /\ t.poll.pc = "sleep"
           /\ t.poll.queries = DefaultMaxAttempts
           /\ t \notin tasks')
          => /\ \A u \in tasks' : u.id # t.id
             /\ wire' = NoReq
             /\ done' = Done("processPayment", t.id, "rejected", NoPayment)
             /\ threeDsStatus' = "failed"
             /\ error' = "Payment verification timeout"
             /\ isLoading' = FALSE
             /\ paymentResult' = paymentResult]_vars

\* a processPayment call just rejected with the polling timeout
C3_Witness ==
    /\ done.call = "processPayment"
    /\ done.outcome = "rejected"
    /\ error = "Payment verification timeout"
    /\ threeDsStatus = "failed"
    /\ ~isLoading

(* C4 *)

Clickable(shown, disabled) == shown /\ ~disabled

\* C4: at most one handler call with a backend operation is in flight, and
\* while one is, none of the four buttons that start one can be pressed
C4_OneInFlight ==
    /\ Cardinality(tasks) <= 1
    /\ tasks # {} =>
          /\ ~Clickable(CreatePaymentInstrumentShown, CreatePaymentInstrumentDisabled)
          /\ ~Clickable(CreateThreedsSessionShown, CreateThreedsSessionDisabled)
          /\ ~Clickable(ProcessPaymentShown, ProcessPaymentDisabled)
          /\ ~Clickable(RetryShown, RetryDisabled)

\* a session creation is in flight while the Process Payment button is shown
\* with a store id and an amount entered
C4_Witness ==
    /\ \E t \in tasks : t.kind = "session"
    /\ ProcessPaymentShown
    /\ paymentAmount # 0
    /\ Trim(storeId) # ""

(* C5 *)

\* C5: a status query comes from a polling call only; the first query of a
\* payment is sent by the step in which startChallenge for that payment
\* resolved; and when startChallenge rejects, the step sends no status query
\* and ends the call, so none follows
C5_PollAfterChallenge ==
    /\ wire.kind = "status" =>
          \E t \in tasks :
             /\ t.id = wire.op
             /\ t.pc = "poll"
             /\ t.poll.queries >= 1
             /\ t.poll.queries = 1 =>
                   rx = Rx("startChallenge", t.id, TRUE, "resolved", NoPayment)
    /\ (rx.kind = "startChallenge" /\ ~rx.ok) =>
          /\ wire.kind # "status"
          /\ \A t \in tasks : t.id # rx.op

\* the first status query of a payment, sent as its challenge resolved
C5_Witness ==
    /\ wire.kind = "status"
    /\ rx.kind = "startChallenge"
    /\ rx.ok

(* C6 *)

\* C6: a create-instrument request is sent with the token held; a
\* create-session or process-payment request names an instrument, whose ids
\* only an OK create-instrument response delivers; and a handler that
\* returned at its guard found its precondition missing and left nothing in
\* flight
C6_ForwardOnly ==
    /\ wire.kind = "create-instrument" =>
          tokenResult # NoToken /\ wire.token = tokenResult
    /\ wire.kind \in {"create-session", "process-payment"} => wire.pi # 0
    /\ wire.kind = "returned" =>
          /\ tokenResult = NoToken \/ paymentInstrumentResult = NoInstrument
          /\ tasks = {}

\* a retry pressed after Start Over returned without sending anything
C6_Witness ==
    /\ wire.kind = "returned"
    /\ paymentInstrumentResult = NoInstrument
    /\ tasks = {}

(* C7 *)

\* the create-session request of the standalone Create 3DS Session action
StandaloneSessionRequest ==
    /\ wire.kind = "create-session"
    /\ \E t \in tasks : t.id = wire.op /\ t.kind = "session"

\* C7: once a process-payment request was sent for an instrument,
\* the standalone action sends no create-session request for it
C7_NoSessionAfterPayment == ~(StandaloneSessionRequest /\ wire.pi \in paid)

(* C8 *)

\* C8: after an OK process-payment response, the call waits in the challenge
\* exactly if requireAction is not 'none', requireActionData.type is
\* 'threeds_auth' and metadata.threedsSession is present; otherwise the call
\* has resolved with that response, nothing was sent and threeDsStatus is idle
C8_Only3DSBranches ==
    (rx.kind = "process-payment" /\ rx.ok) =>
        IF /\ rx.payment.requireAction # "none"
           /\ rx.payment.actionType = "threeds_auth"
           /\ rx.payment.threedsSession
        THEN /\ \E t \in tasks : t.id = rx.op /\ t.pc = "challenge_wait"
             /\ threeDsStatus = "in_progress"
             /\ done = NoDone
        ELSE /\ \A t \in tasks : t.id # rx.op
             /\ done = Done("processPayment", rx.op, "resolved", rx.payment)
             /\ paymentResult = rx.payment
             /\ wire = NoReq
             /\ threeDsStatus = "idle"

\* a response that requires a redirect was returned as it came
C8_Witness ==
    /\ rx.kind = "process-payment"
    /\ rx.ok
    /\ rx.payment.requireAction = "redirect"
    /\ rx.payment.actionType = "redirect"
    /\ paymentResult = rx.payment

(* C9 *)

ProcessPaymentResolved == done.call = "processPayment" /\ done.outcome = "resolved"

\* C9 as stated: every processPayment call that resolves returns a payment
\* with a terminal status
C9_ResolvesTerminal == ProcessPaymentResolved => done.payment.status \in TerminalStatuses

\* C9 amended: a processPayment call that resolves after a 3DS challenge
\* returns a payment whose status is succeeded, declined or failed; one that
\* resolves without a challenge returns the process-payment response as it
\* came, whatever its status
C9_ResolvesTerminalAfterChallenge ==
    ProcessPaymentResolved =>
        IF rx.kind = "process-payment"
        THEN done.payment = rx.payment /\ threeDsStatus = "idle"
        ELSE /\ done.payment.status \in TerminalStatuses
             /\ threeDsStatus \in {"completed", "failed"}

\* a call resolved after challenge and polling with a declined payment
C9_Witness ==
    /\ ProcessPaymentResolved
    /\ rx.kind # "process-payment"
    /\ done.payment.status = "declined"

(* C10 *)

ExpectedHttpError(kind, body) ==
    CASE body = "rejected" -> "Failed to fetch"
      [] body = "unreadable" -> "Unknown error"
      [] body = "Invalid API token" -> "Invalid API token"
      [] body = "no-error" /\ kind = "create-instrument" ->
            "Failed to create payment instrument: Bad Request"
      [] body = "no-error" /\ kind = "create-session" ->
            "Failed to persist session: Bad Request"
      [] body = "no-error" /\ kind = "process-payment" ->
            "Failed to process payment: Bad Request"

\* C11: when a create-instrument, persist-session or process-payment request
\* fails, the step that takes the response sends nothing further and ends the
\* call, which rejects, and error holds the API's error string or the
\* fallback text; a non-OK or status-less status response ends the polling
\* in the same way, with the polling's own message
C11_FailureSurfacedNoRetry ==
    /\ (rx.kind \in {"create-instrument", "create-session", "process-payment"}
           /\ ~rx.ok) =>
          /\ wire = NoReq
          /\ \A t \in tasks : t.id # rx.op
          /\ done.op = rx.op /\ done.outcome = "rejected"
          /\ error = ExpectedHttpError(rx.kind, rx.body)
          /\ ~isLoading
    /\ (rx.kind = "status" /\ (~rx.ok \/ rx.payment.status = "")) =>
          /\ wire = NoReq
          /\ \A t \in tasks : t.id # rx.op
          /\ done = Done("processPayment", rx.op, "rejected", NoPayment)
          /\ error = IF rx.ok THEN "Invalid payment response"
                     ELSE "Failed to fetch payment status"
          /\ threeDsStatus = "failed"

\* a process-payment request got a non-OK response without an error string
C11_Witness ==
    /\ rx.kind = "process-payment"
    /\ ~rx.ok
    /\ rx.body = "no-error"
    /\ error = "Failed to process payment: Bad Request"
    /\ tasks = {}
(* C12 *)

SdkSessionFailed(r) == r.kind = "createLocalSession" /\ ~r.ok

\* C12: the persist request is sent by the step in which createLocalSession
\* resolved; create3DSSession resolves only in the step in which the persist
\* request succeeded, and the App then stores that session; when
\* createLocalSession rejects, the step sends nothing, sets error, rejects
\* the call and leaves the App's stored 3DS session as it was
C12_SdkThenPersist ==
    /\ [](/\ wire.kind = "create-session" =>
                rx = Rx("createLocalSession", wire.op, TRUE, "resolved", NoPayment)
          /\ (done.call = "create3DSSession" /\ done.outcome = "resolved") =>
                /\ rx = Rx("create-session", done.op, TRUE, "", NoPayment)
                /\ threedsSessionResult.id = done.op
          /\ SdkSessionFailed(rx) =>
                /\ wire = NoReq
                /\ \A t \in tasks : t.id # rx.op
                /\ done = Done("create3DSSession", rx.op, "rejected", NoPayment)
                /\ error \in {"3DS SDK error", "Failed to create 3DS session"}
                /\ ~isLoading)
    /\ [][SdkSessionFailed(rx') => threedsSessionResult' = threedsSessionResult]_vars

\* createLocalSession rejected with something that is no Error
C12_Witness ==
    /\ SdkSessionFailed(rx)
    /\ rx.body = "non-error"
    /\ error = "Failed to create 3DS session"
    /\ done.outcome = "rejected"
(* C13 *)

\* C13: a process-payment request carries a threedsSessionId exactly if the
\* App holds a 3DS session when the request is sent, and the id is that of
\* the held session, which is the session persisted last
C13_UsesHeldSession ==
    wire.kind = "process-payment" =>
        /\ wire.sess # 0 <=> threedsSessionResult # NoSession
        /\ wire.sess = threedsSessionResult.id
        /\ wire.sess # 0 => wire.sess = lastSession

\* a payment pressed with a session held that the standalone action created
C13_Witness ==
    /\ wire.kind = "process-payment"
    /\ wire.sess # 0
    /\ \E t \in tasks : t.id = wire.op /\ t.kind = "pay"
(* C14 *)

\* C14: when a status response carries a status other than 'pending',
\* pollPaymentStatus has returned with the payment of that response
C14_ReturnsOnceNotPending ==
    answered.status \notin {"", "pending"} =>
        poll.pc = "returned" /\ poll.result = answered
(* C15 *)

\* C15: every create-instrument, create-session, process-payment or status
\* request is sent with a bearer token that is not blank, while the API token
\* input is not blank
C15_BearerOnEveryRequest ==
    wire.kind \in {"create-instrument", "create-session", "process-payment", "status"} =>
        Trim(wire.bearer) # "" /\ Trim(apiToken) # ""
(* C16 *)

PresentationMatches(shown, status) ==
    /\ shown = "success" => status = "succeeded"
    /\ status \in {"declined", "rejected", "failed"} => shown = "declined"
    /\ shown = "processing" => status \notin TerminalStatuses

\* C16: whenever a payment result is displayed, both Apps show the success
\* presentation only for 'succeeded', the declined presentation for
\* 'declined', 'rejected' and 'failed', and the processing presentation only
\* for a status that is not terminal
C16_ResultMatchesStatus ==
    paymentResult # NoResult =>
        /\ PresentationMatches(ResultPresentation(paymentResult.status),
                               paymentResult.status)
        /\ PresentationMatches(SimpleResultPresentation(paymentResult.status),
                               paymentResult.status)
(* C17 *)

C19_LoadingTracksInFlight ==
    /\ isLoading <=> tasks # {}
    /\ done # NoDone =>
          (isLoading <=> \E t \in tasks : t.id = done.op)

\* a retry whose session creation failed at the persist request has settled
C19_Witness ==
    /\ done.call = "create3DSSession"
    /\ done.outcome = "rejected"
    /\ rx.kind = "create-session"
    /\ lastSession # 0
    /\ tasks = {}
    /\ ~isLoading
(* C20 *)

PolledTerminal(r) == r.kind = "status" /\ r.ok /\ r.payment.status \in TerminalStatuses

StartsPaymentOrResets ==
    \/ wire'.kind = "process-payment"
    \/ \E t \in tasks' \ tasks : t.kind = "retry"

\* the step ends a processPayment call of the hook
EndsPayment == done'.call = "processPayment"

\* the step belongs to a processPayment call that is past its request
InsidePayment ==
    \E t \in tasks : t.pc \in {"pay_wait", "challenge_wait", "poll"}

ThreeDsStepAllowed(from, to) ==
    \/ to = "idle" /\ StartsPaymentOrResets
    \/ from = "idle" /\ to = "required" /\ InsidePayment
    \/ from = "required" /\ to = "in_progress" /\ InsidePayment
    \/ from = "in_progress" /\ to \in {"completed", "failed"} /\ EndsPayment
    \/ to = "failed" /\ EndsPayment /\ done'.outcome = "rejected"

\* C21: every value a step passes to setThreeDsStatus follows the value
\* before it by one of the listed steps ('idle' at the start of processPayment
\* or by resetThreeDsStatus, idle -> required -> in_progress -> completed or
\* failed, 'failed' when processPayment fails), the status after the step is
\* the last value set, a step that sets none leaves it alone, and
\* 'in_progress' is held only while the processPayment call that set it runs
C21_StatusStepsOnly ==
    /\ [](threeDsStatus = "in_progress" =>
             \E t \in tasks : t.pc \in {"challenge_wait", "poll"})
    /\ [][LET chain == <<threeDsStatus>> \o threeDsTrail' IN
             /\ threeDsStatus' = chain[Len(chain)]
             /\ \A i \in 1..Len(threeDsTrail') :
                    ThreeDsStepAllowed(chain[i], chain[i + 1])]_vars

\* a challenge that went through 'required' and 'in_progress' has completed
C21_Witness ==
    /\ threeDsTrail = <<"completed">>
    /\ threeDsStatus = "completed"
    /\ done.call = "processPayment"
    /\ done.outcome = "resolved"

(* C22 *)

\* C22: whenever the retry-from-beginning button is shown and enabled, the
\* handler behind it passes its guard, so that pressing it starts the
\* creation of a 3DS session
C22_RetryStartsSession == (RetryShown /\ ~RetryDisabled) => ~RetryReturns

(* C23 *)

\* C23: a retry button is shown only if a payment was attempted with the
\* instrument of the current checkout (the held instrument changes only once
\* between two Start Overs, so an attempt of the current checkout was made
\* with it) and the stored result of that attempt is not 'succeeded'
C23_RetryOnlyAfterFailedAttempt ==
    RetryShown =>
        /\ paymentInstrumentResult # NoInstrument
        /\ paymentInstrumentResult.id \in paid
        /\ paymentResult.status # "succeeded"

(* C24 *)

\* C24: the step of resetToken leaves token, instrument, 3DS session, payment
\* result and error empty and threeDsStatus 'idle'
C24_StartOverResets ==
    [][(tokenResult # NoToken /\ tokenResult' = NoToken) =>
          /\ paymentInstrumentResult' = NoInstrument
          /\ threedsSessionResult' = NoSession
          /\ paymentResult' = NoResult
          /\ error' = NoError
          /\ threeDsStatus' = "idle"]_vars

(* C25 *)

\* C25: a stored payment instrument was created from the token that is held
C25_InstrumentOfHeldToken ==
    paymentInstrumentResult # NoInstrument =>
        /\ tokenResult # NoToken
        /\ paymentInstrumentResult.token = tokenResult

(* C26 *)

\* C26: a process-payment request that carries a threedsSessionId carries the
\* stored session's id, and that session was created for the instrument the
\* request names
C26_SessionOfRequestInstrument ==
    (wire.kind = "process-payment" /\ wire.sess # 0) =>
        /\ threedsSessionResult.id = wire.sess
        /\ threedsSessionResult.paymentInstrumentId = wire.pi

(* C27 *)

\* the backend requests of the App without the hook that have not settled
ManualSubmissions ==
    {t \in manualTasks :
        \/ t.pc \in {"pi_wait", "persist_wait", "pay_wait"}
        \/ t.pc = "poll" /\ t.poll.pc = "fetch"}

\* C27: at most one backend request is in flight, and no process-payment
\* request is sent while a create-session request has not settled
C27_OneSubmissionInFlight ==
    /\ Cardinality(ManualSubmissions) <= 1
    /\ manualLog.sent = "process-payment" =>
          ~\E t \in manualTasks : t.pc = "persist_wait"

(* C28 *)

\* C28: the challenge a retry starts is that of the latest process-payment
\* response of the current checkout
C28_RetryOfCurrentCheckout ==
    manualLog.by = "retryChallenge" =>
        /\ latestResponse # NoManualPayment
        /\ manualLog.challenge = latestResponse

(* C29 *)
\* Whenever the latest step reported a failure of a wallet button through
\* onError, be it from a callback of the attempt or from inside the click
\* that started it, the App is left with isProcessing false and with the
\* reported message as its error, so the wallet buttons are enabled.
C29_ReportedErrorSettles ==
    walletReported # "" =>
        /\ wallet.isProcessing = FALSE
        /\ wallet.error = walletReported
        /\ ~WalletButtonDisabled

(* C30 *)
\* the prices the selected option can be said to have: the one in the list
\* of options the component holds and the one calculated for the address of
\* the sheet
ExpressSelectedPrices ==
    LET held == {express.shippingOptions[i] : i \in 1..Len(express.shippingOptions)}
        calculated == {calculateShipping(sheet.shippingAddress)[i] :
                          i \in 1..Len(calculateShipping(sheet.shippingAddress))}
    IN  {o.price : o \in {p \in held \cup calculated : p.id = express.selectedShippingId}}

\* Once an address change or an option change of the sheet has been handled,
\* and until the next one arrives, the order summary the component holds
\* has total = subtotal + shipping + tax, and its shipping amount is the
\* price of the selected option, which is the option the sheet shows.
C30_SummaryFollowsSelection ==
    (sheet.trigger \in {"SHIPPING_ADDRESS", "SHIPPING_OPTION"} /\ ~express.isCalculating) =>
        /\ express.orderSummary.total =
              express.orderSummary.subtotal + express.orderSummary.shipping
                 + express.orderSummary.tax
        /\ express.selectedShippingId = sheet.shippingOptionId
        /\ \E price \in ExpressSelectedPrices :
              express.orderSummary.shipping = parsePrice(price)

=============================================================================
